---- MODULE Spec2Model ----
(***************************************************************************)
(* A model of voice_loop.py: the utterance recorder (record_utterance),    *)
(* the agent client (ask_agent), the speech synthesis router (speak and    *)
(* its backends) and the turn loop (main).                                 *)
(*                                                                         *)
(* Time is counted in ticks of 0.1 s, the length of one audio chunk        *)
(* (chunk_size = int(SAMPLE_RATE * 0.1) samples at SAMPLE_RATE Hz).        *)
(* RMS levels are counted in units of 0.001.                               *)
(***************************************************************************)
EXTENDS Integers, Sequences, FiniteSets, TLC

\* ------------------------------------------------------------------------
\* Program constants
\* ------------------------------------------------------------------------
\* SILENCE_DURATION = 1.5 s, in ticks
SILENCE_DURATION == 15
\* MIN_SPEECH_DURATION = 0.5 s, in ticks
MIN_SPEECH_DURATION == 5
\* the floor of calibrate_mic, 0.005, in units of 0.001
THRESHOLD_FLOOR == 5
\* Python's None where the other values are numbers (silence_start, a file's size)
None == -1
\* main: `if consecutive_errors >= 3`
MAX_ERRORS == 3
\* speak_elevenlabs, speak_openai: a synthesized file under 1000 bytes is a failure
MIN_AUDIO_BYTES == 1000
\* speak_elevenlabs: a re-encoded file is used when it is over 500 bytes
MIN_FAST_BYTES == 500

\* ------------------------------------------------------------------------
\* Bounds of the model
\* ------------------------------------------------------------------------
\* silence frames read before the first speech frame of one recording
MaxIdle == 1
\* speech frames read in one recording
MaxSpeech == 21
\* reads of one recording that return late (the process was held up)
MaxStalls == 1
\* the wall-clock ticks a late read takes
Stall == 16
\* ambient RMS levels calibrate_mic may measure: 0..MaxCalibRms
MaxCalibRms == 1
\* the speech frames of the two-second utterance of the recorder's scenario
TwoSeconds == 20
\* MAX_TURNS, read from the environment (50 when unset)
MAX_TURNS == 2
\* the longest reply given to the stripping loop on its own
MaxStripLen == 3
\* MAX_REPLY_CHARS (500 in the program), scaled to the replies of the model
MAX_REPLY_CHARS == 8
\* temporary files of transcribe that may be left behind
MaxTmpFiles == 1
\* frames read in one recording
MaxFrames == MaxIdle + MaxSpeech + 2 * SILENCE_DURATION + 2

VARIABLES
    threshold,       \* main: threshold = calibrate_mic()
    rpc,             \* record_utterance: "reading" (in the while loop) or "returned"
    speech_started,  \* record_utterance local
    silence_start,   \* record_utterance local (None or a time)
    audio_chunks,    \* record_utterance local: the frames appended, by frame number
    rresult,         \* record_utterance: the value returned
    now,             \* time.time(), ticks since record_utterance was called
    nread,           \* frames read from the stream by this call
    stalls,          \* late reads of this call
    h_idle,          \* history: silence frames read before the first speech frame
    h_speech,        \* history: frames read whose RMS exceeded the threshold
    h_resumed,       \* history: a speech frame was read after a pause in the speech
    h_quiet,         \* history: when the silence frames read last began (None: the
                     \*   last frame read was speech, or none was read)
    tts_cfg,         \* which of ELEVENLABS_API_KEY, OPENAI_API_KEY, ELEVENLABS_SPEED are set
    pc,              \* main: "top", "record", "transcribe", "ask", "speak" or "exited"
    turn_count,      \* global
    consecutive_errors, \* global
    audio,           \* main local
    text,            \* main local
    reply,           \* main local
    tmp_files,       \* temporary files of transcribe that exist
    tts_calls,       \* the external programs the last speak call invoked, in order
    exit_cause,      \* what ended the loop
    h_event,         \* history: how the last stage that ran ended
    h_class,         \* history: the agent's outcome in this iteration
    h_raw,           \* history: the size of the file the cloud request left
    h_fast,          \* history: the size of the file the re-encoding left
    h_top,           \* history: the counters and tallies when the iteration began
    h_rec,           \* history: the counters when recording began
    h_spk,           \* history: the counters when speak was called
    h_succ,          \* history: successful agent replies since the last reset
    h_streak,        \* history: agent failures since the last success or reset
    sreply,          \* ask_agent local `reply`, in and after the stripping loop
    npass,           \* runs of the stripping loop over sreply
    h_once           \* history: sreply after the first run of the stripping loop

recvars == <<threshold, rpc, speech_started, silence_start, audio_chunks, rresult,
             now, nread, stalls, h_idle, h_speech, h_resumed, h_quiet>>

mainvars == <<tts_cfg, pc, turn_count, consecutive_errors, audio, text, reply,
              tmp_files, tts_calls, exit_cause, h_event, h_class, h_raw, h_fast,
              h_top, h_rec, h_spk, h_succ, h_streak>>

stripvars == <<sreply, npass, h_once>>

vars == <<recvars, mainvars, stripvars>>

\* ------------------------------------------------------------------------
\* Energy detector
\* ------------------------------------------------------------------------
Max(a, b) == IF a >= b THEN a ELSE b

\* calibrate_mic: threshold = rms * 3.0; return max(threshold, 0.005)
calibrate_mic(rms) == Max(rms * 3, THRESHOLD_FLOOR)

Thresholds == { calibrate_mic(r) : r \in 0..MaxCalibRms }

\* the RMS levels of the frames of the model: silence, each threshold, and just above it
RmsLevels == {0} \cup UNION { {t, t + 1} : t \in Thresholds }

IsSpeech_Geq(rms, thr) == rms >= thr

\* record_utterance: `if rms > threshold`
IsSpeech(rms, thr) == rms > thr

\* ------------------------------------------------------------------------
\* Utterance recorder
\* ------------------------------------------------------------------------
\* the locals of record_utterance at the head of the while loop
RecInit == [speech_started |-> FALSE, silence_start |-> None,
            audio_chunks |-> <<>>, broke |-> FALSE]

SilenceElapsed_Swapped(t, start) == start - t > SILENCE_DURATION

\* `time.time() - silence_start > SILENCE_DURATION`
SilenceElapsed(t, start) == t - start > SILENCE_DURATION

RecStep_AppendOnBreak(st, data, rms, t, thr) ==
    LET loud    == IsSpeech(rms, thr)
        started == st.speech_started \/ loud
        timing  == ~loud /\ st.speech_started
        brk     == timing /\ st.silence_start # None
                          /\ SilenceElapsed(t, st.silence_start)
        sil     == IF loud THEN None
                   ELSE IF timing /\ st.silence_start = None THEN t
                   ELSE st.silence_start
    IN  [speech_started |-> started,
         silence_start  |-> sil,
         audio_chunks   |-> IF started THEN Append(st.audio_chunks, data)
                            ELSE st.audio_chunks,
         broke          |-> brk]

RecStep_KeepTimer(st, data, rms, t, thr) ==
    LET loud    == IsSpeech(rms, thr)
        started == st.speech_started \/ loud
        timing  == ~loud /\ st.speech_started
        brk     == timing /\ st.silence_start # None
                          /\ SilenceElapsed(t, st.silence_start)
        sil     == IF timing /\ st.silence_start = None THEN t
                   ELSE st.silence_start
    IN  [speech_started |-> started,
         silence_start  |-> sil,
         audio_chunks   |-> IF brk THEN st.audio_chunks
                            ELSE IF started THEN Append(st.audio_chunks, data)
                            ELSE st.audio_chunks,
         broke          |-> brk]

\* one pass of the while loop of record_utterance on the frame `data` of level
\* `rms`, processed at time t: the `break` leaves the loop before the append
RecStep(st, data, rms, t, thr) ==
    LET loud    == IsSpeech(rms, thr)
        started == st.speech_started \/ loud
        timing  == ~loud /\ st.speech_started
        brk     == timing /\ st.silence_start # None
                          /\ SilenceElapsed(t, st.silence_start)
        sil     == IF loud THEN None
                   ELSE IF timing /\ st.silence_start = None THEN t
                   ELSE st.silence_start
    IN  [speech_started |-> started,
         silence_start  |-> sil,
         audio_chunks   |-> IF brk THEN st.audio_chunks
                            ELSE IF started THEN Append(st.audio_chunks, data)
                            ELSE st.audio_chunks,
         broke          |-> brk]

\* the value record_utterance returns: None or the audio
NoAudio == [some |-> FALSE, audio |-> <<>>]
SomeAudio(chunks) == [some |-> TRUE, audio |-> chunks]

\* after the loop: duration = len(audio) / SAMPLE_RATE;
\* `if duration < MIN_SPEECH_DURATION: return None`, else the audio
RecReturn(chunks) ==
    IF Len(chunks) < MIN_SPEECH_DURATION THEN NoAudio ELSE SomeAudio(chunks)

\* the wall-clock ticks one stream.read takes: a chunk's length, or a late return
Delays(nstalls) == {1} \cup (IF nstalls < MaxStalls THEN {Stall} ELSE {})

\* the locals of record_utterance and the clock when it is called
RecLocalsInit ==
    /\ rpc = "reading"
    /\ speech_started = RecInit.speech_started
    /\ silence_start = RecInit.silence_start
    /\ audio_chunks = RecInit.audio_chunks
    /\ rresult = NoAudio
    /\ now = 0
    /\ nread = 0
    /\ stalls = 0
    /\ h_idle = 0
    /\ h_speech = 0
    /\ h_resumed = FALSE
    /\ h_quiet = None

\* ------------------------------------------------------------------------
\* Text: a Python str is a sequence of one-character strings
\* ------------------------------------------------------------------------
UpperCase == <<"A", "B", "C", "D", "E", "F", "G", "H", "I", "J", "K", "L", "M", "N", "O", "P", "Q", "R", "S", "T", "U", "V", "W", "X", "Y", "Z">>
LowerCase == <<"a", "b", "c", "d", "e", "f", "g", "h", "i", "j", "k", "l", "m", "n", "o", "p", "q", "r", "s", "t", "u", "v", "w", "x", "y", "z">>
Whitespace == {" ", "\n", "\t"}
\* the grave accent character, which a TLA+ string cannot hold
Backtick == "grave"

\* str.lower() on one character
LowerChar(c) ==
    IF \E i \in 1..Len(UpperCase) : UpperCase[i] = c
    THEN LowerCase[CHOOSE i \in 1..Len(UpperCase) : UpperCase[i] = c]
    ELSE c

\* str.lower()
Lower(s) == [i \in 1..Len(s) |-> LowerChar(s[i])]

\* str.strip(): whitespace removed at both ends
RECURSIVE LStrip(_)
LStrip(s) == IF s # <<>> /\ Head(s) \in Whitespace THEN LStrip(Tail(s)) ELSE s

RECURSIVE RStrip(_)
RStrip(s) ==
    IF s # <<>> /\ s[Len(s)] \in Whitespace THEN RStrip(SubSeq(s, 1, Len(s) - 1)) ELSE s

Strip(s) == LStrip(RStrip(s))

\* s.startswith(pat)
StartsWith(s, pat) == Len(s) >= Len(pat) /\ SubSeq(s, 1, Len(pat)) = pat

\* s.replace(pat, ""): the occurrences of pat, found left to right, removed
RECURSIVE Remove(_, _)
Remove(s, pat) ==
    IF s = <<>> THEN <<>>
    ELSE IF StartsWith(s, pat) THEN Remove(SubSeq(s, Len(pat) + 1, Len(s)), pat)
    ELSE <<Head(s)>> \o Remove(Tail(s), pat)

\* s.rfind(ch), counted from 0 as Python does; -1 when ch is not in s
RFind(s, ch) ==
    IF \E i \in 1..Len(s) : s[i] = ch
    THEN (CHOOSE i \in 1..Len(s) : s[i] = ch /\ \A j \in (i + 1)..Len(s) : s[j] # ch) - 1
    ELSE -1

\* " ".join(parts)
RECURSIVE Join(_)
Join(parts) ==
    IF parts = <<>> THEN <<>>
    ELSE IF Len(parts) = 1 THEN parts[1]
    ELSE parts[1] \o <<" ">> \o Join(Tail(parts))

\* ------------------------------------------------------------------------
\* Transcript filter of the turn loop
\* ------------------------------------------------------------------------
\* main: the list the lowered, stripped transcript is looked up in
Denylist == {
    <<>>, <<"y", "o", "u">>, <<"t", "h", "a", "n", "k", " ", "y", "o", "u", ".">>, <<"t", "h", "a", "n", "k", "s", " ", "f", "o", "r", " ", "w", "a", "t", "c", "h", "i", "n", "g", "!">>,
    <<"t", "h", "a", "n", "k", "s", " ", "f", "o", "r", " ", "w", "a", "t", "c", "h", "i", "n", "g", ".">>, <<"t", "h", "a", "n", "k", " ", "y", "o", "u", " ", "f", "o", "r", " ", "w", "a", "t", "c", "h", "i", "n", "g", ".">>,
    <<"b", "y", "e", ".">>, <<"b", "y", "e">>, <<"t", "h", "e", " ", "e", "n", "d", ".">>, <<"h", "m", "m", ".">> }

IsDiscardedText_CaseSensitive(txt) == txt = <<>> \/ Strip(txt) \in Denylist

\* main: `if not text or text.lower().strip() in [...]`
IsDiscardedText(txt) == txt = <<>> \/ Strip(Lower(txt)) \in Denylist

\* what the transcription engine may hand back as result["text"]
WhisperTexts == <<
    <<>>, <<" ">>, <<" ", "B", "y", "e", ".", " ">>, <<" ", "T", "H", "A", "N", "K", " ", "Y", "O", "U", ".">>, <<" ", "y", "o", "u">>,
    <<" ", "B", "y", "e", " ", "n", "o", "w">>, <<" ", "T", "h", "a", "n", "k", "s", " ", "f", "o", "r", " ", "w", "a", "t", "c", "h", "i", "n", "g", "!">> >>

\* ------------------------------------------------------------------------
\* Agent client: the parsed response
\* ------------------------------------------------------------------------
\* JSON values as json.loads returns them
JNull == [t |-> "null"]
JNum(n) == [t |-> "num", n |-> n]
JStr(s) == [t |-> "str", s |-> s]
JList(l) == [t |-> "list", l |-> l]
JDict(d) == [t |-> "dict", d |-> d]
\* output that is not JSON
NotJson == [t |-> "invalid"]

\* Python's truth value of a JSON value
Truthy(v) ==
    CASE v.t = "null" -> FALSE
      [] v.t = "num"  -> v.n # 0
      [] v.t = "str"  -> v.s # <<>>
      [] v.t = "list" -> v.l # <<>>
      [] v.t = "dict" -> DOMAIN v.d # {}
      [] OTHER -> FALSE

\* dict.get(key, default)
Get(v, key, default) == IF key \in DOMAIN v.d THEN v.d[key] ELSE default

\* the items `for p in payloads` walks over, when payloads can be iterated:
\* a list gives its items, a str its characters, a dict its keys
IterItems(v) ==
    CASE v.t = "list" -> v.l
      [] v.t = "str"  -> [i \in 1..Len(v.s) |-> JStr(<<v.s[i]>>)]
      [] v.t = "dict" -> IF DOMAIN v.d = {} THEN <<>> ELSE <<JStr(<<>>)>>
      [] OTHER -> <<>>

Iterable(v) == v.t \in {"list", "str", "dict"}

\* the texts of the payloads that have a true "text", in order
RECURSIVE TextsOf(_)
TextsOf(items) ==
    IF items = <<>> THEN <<>>
    ELSE LET x == Get(Head(items), "text", JNull)
         IN  (IF Truthy(x) THEN <<x>> ELSE <<>>) \o TextsOf(Tail(items))

\* ask_agent, the body of its second try: json.loads, the two .get, the list
\* comprehension, the join and the strip. "decode_error" is the JSONDecodeError
\* its except clause catches; "escape" is an AttributeError or TypeError, which
\* the clause (JSONDecodeError, KeyError, IndexError) does not catch.
ParseReply(stdout) ==
    IF stdout.t = "invalid" THEN [kind |-> "decode_error", reply |-> <<>>]
    ELSE IF stdout.t # "dict" THEN [kind |-> "escape", reply |-> <<>>]
    ELSE LET result == Get(stdout, "result", JDict(<<>>))
         IN  IF result.t # "dict" THEN [kind |-> "escape", reply |-> <<>>]
             ELSE LET payloads == Get(result, "payloads", JList(<<>>))
                  IN  IF ~Iterable(payloads)
                         \/ \E i \in 1..Len(IterItems(payloads)) :
                                IterItems(payloads)[i].t # "dict"
                      THEN [kind |-> "escape", reply |-> <<>>]
                      ELSE LET texts == TextsOf(IterItems(payloads))
                           IN  IF \E i \in 1..Len(texts) : texts[i].t # "str"
                               THEN [kind |-> "escape", reply |-> <<>>]
                               ELSE [kind  |-> "reply",
                                     reply |-> Strip(Join([i \in 1..Len(texts) |->
                                                               texts[i].s]))]

\* ------------------------------------------------------------------------
\* Agent client: reply shaping
\* ------------------------------------------------------------------------
Truncate_EllipsisOnFull(rep) ==
    IF Len(rep) > MAX_REPLY_CHARS
    THEN LET truncated   == SubSeq(rep, 1, MAX_REPLY_CHARS)
             last_period == RFind(truncated, ".")
         IN  IF last_period > MAX_REPLY_CHARS \div 2
             THEN SubSeq(truncated, 1, last_period + 1)
             ELSE rep \o <<".", ".", ".">>
    ELSE rep

\* ask_agent, "Truncate for TTS"
Truncate(rep) ==
    IF Len(rep) > MAX_REPLY_CHARS
    THEN LET truncated   == SubSeq(rep, 1, MAX_REPLY_CHARS)
             last_period == RFind(truncated, ".")
         IN  IF last_period > MAX_REPLY_CHARS \div 2
             THEN SubSeq(truncated, 1, last_period + 1)
             ELSE truncated \o <<".", ".", ".">>
    ELSE rep

\* ask_agent, "Strip markdown artifacts": the sequences removed, in order
MarkdownArtifacts == << <<"*", "*">>, <<Backtick, Backtick, Backtick>>, <<Backtick>>, <<"-", " ">>, <<"*", " ">> >>

RECURSIVE RemoveAll(_, _)
RemoveAll(s, pats) ==
    IF pats = <<>> THEN s ELSE RemoveAll(Remove(s, Head(pats)), Tail(pats))

StripMarkdown(rep) == RemoveAll(rep, MarkdownArtifacts)

\* the strings ask_agent returns on failure
TIMEOUT_REPLY == <<"S", "o", "r", "r", "y", ",", " ", "t", "h", "a", "t", " ", "t", "o", "o", "k", " ", "t", "o", "o", " ", "l", "o", "n", "g", ".", " ", "T", "r", "y", " ", "a", "g", "a", "i", "n", ".">>
ERROR_REPLY == <<"S", "o", "r", "r", "y", ",", " ", "I", " ", "h", "i", "t", " ", "a", "n", " ", "e", "r", "r", "o", "r", ".", " ", "T", "r", "y", " ", "a", "g", "a", "i", "n", ".">>
EMPTY_REPLY == <<"I", " ", "p", "r", "o", "c", "e", "s", "s", "e", "d", " ", "t", "h", "a", "t", " ", "b", "u", "t", " ", "h", "a", "d", " ", "n", "o", "t", "h", "i", "n", "g", " ", "t", "o", " ", "s", "a", "y", ".">>
PARSE_ERROR_REPLY == <<"S", "o", "r", "r", "y", ",", " ", "s", "o", "m", "e", "t", "h", "i", "n", "g", " ", "w", "e", "n", "t", " ", "w", "r", "o", "n", "g", " ", "p", "a", "r", "s", "i", "n", "g", " ", "t", "h", "e", " ", "r", "e", "s", "p", "o", "n", "s", "e", ".">>
Apologies == {TIMEOUT_REPLY, ERROR_REPLY, EMPTY_REPLY, PARSE_ERROR_REPLY}

\* ------------------------------------------------------------------------
\* Speech synthesis router
\* ------------------------------------------------------------------------
\* One invocation of an external program by subprocess.run
Call(prog, path, txt, out) == [prog |-> prog, path |-> path, text |-> txt, out |-> out]

\* The outcomes of the external programs during one speak call:
\*   curl, afplay: "ok" (subprocess.run returned, whatever the exit status)
\*     or "raise" (it raised: TimeoutExpired, FileNotFoundError, ...)
\*   ffmpeg: "ok" (it exited with status 0), "nonzero" (it exited with another
\*     status, which the code does not look at) or "raise"
\*   say: "ok", or "notfound" (FileNotFoundError or any other exception, which
\*     speak_macos catches and reports)
\*   raw, fast: the size of the file the program left, None when there is none
TtsEnvs ==
    [curl : {"ok", "raise"}, raw : {None, 0, MIN_AUDIO_BYTES - 1, MIN_AUDIO_BYTES},
     ffmpeg : {"ok", "nonzero", "raise"}, fast : {None, MIN_FAST_BYTES, MIN_FAST_BYTES + 1},
     afplay : {"ok", "raise"}, say : {"ok", "notfound"}]

\* speak_macos: every exception of `say` is caught and reported
speak_macos(txt, env) == << Call("say", "", txt, env.say) >>

Undersized_EmptyOnly(size) == size = None \/ size = 0

\* `not os.path.exists(raw_path) or os.path.getsize(raw_path) < 1000`
Undersized(size) == size = None \/ size < MIN_AUDIO_BYTES

\* `os.path.exists(fast_path) and os.path.getsize(fast_path) > 500`
FastUsable(size) == size # None /\ size > MIN_FAST_BYTES

\* the player on play_path; an exception of it is caught by the backend's
\* `except Exception`, which calls speak_macos
PlayOrFallback(path, txt, env) ==
    << Call("afplay", path, <<>>, env.afplay) >>
        \o (IF env.afplay = "raise" THEN speak_macos(txt, env) ELSE <<>>)

\* speak_elevenlabs: the external programs it invokes, in order
speak_elevenlabs(txt, speed_set, env) ==
    << Call("curl", "elevenlabs", txt, env.curl) >> \o
    (IF env.curl = "raise" THEN speak_macos(txt, env)
     ELSE IF Undersized(env.raw) THEN speak_macos(txt, env)
     ELSE IF speed_set
          THEN << Call("ffmpeg", "raw", <<>>, env.ffmpeg) >> \o
               (IF env.ffmpeg = "raise" THEN speak_macos(txt, env)
                ELSE PlayOrFallback(IF FastUsable(env.fast) THEN "fast" ELSE "raw",
                                    txt, env))
          ELSE PlayOrFallback("raw", txt, env))

\* speak_openai: the external programs it invokes, in order
speak_openai(txt, env) ==
    << Call("curl", "openai", txt, env.curl) >> \o
    (IF env.curl = "raise" THEN speak_macos(txt, env)
     ELSE IF Undersized(env.raw) THEN speak_macos(txt, env)
     ELSE PlayOrFallback("raw", txt, env))

speak_PreferOpenAI(txt, cfg, env) ==
    IF cfg.openai THEN speak_openai(txt, env)
    ELSE IF cfg.elevenlabs THEN speak_elevenlabs(txt, cfg.speed_set, env)
    ELSE speak_macos(txt, env)

\* speak: `if ELEVENLABS_API_KEY ... elif OPENAI_API_KEY ... else`
speak(txt, cfg, env) ==
    IF cfg.elevenlabs THEN speak_elevenlabs(txt, cfg.speed_set, env)
    ELSE IF cfg.openai THEN speak_openai(txt, env)
    ELSE speak_macos(txt, env)

\* the configurations of the synthesis router: ELEVENLABS_API_KEY set,
\* OPENAI_API_KEY set, ELEVENLABS_SPEED other than 1.0
TtsConfigs == [elevenlabs : BOOLEAN, openai : BOOLEAN, speed_set : BOOLEAN]

\* ------------------------------------------------------------------------
\* Agent client: ask_agent
\* ------------------------------------------------------------------------
\* What the agent process may do. kind: "timeout" (subprocess.TimeoutExpired),
\* "oserror" (subprocess.run raises anything else, such as FileNotFoundError)
\* or "exit" (it returned, with this exit code and standard output). class
\* says what the case is: "reply" is the one successful, non-empty reply.
Outcome(kind, code, stdout, class) ==
    [kind |-> kind, code |-> code, stdout |-> stdout, class |-> class]

Payloads(items) == JDict([result |-> JDict([payloads |-> JList(items)])])
TextPart(s) == JDict([text |-> JStr(s)])

AgentOutcomes == <<
    Outcome("timeout", 0, NotJson, "timeout"),
    Outcome("oserror", 0, NotJson, "oserror"),
    Outcome("exit", 1, NotJson, "nonzero"),
    Outcome("exit", 1, Payloads(<<TextPart(<<"H", "i", ".">>)>>), "nonzero"),
    Outcome("exit", 0, NotJson, "notjson"),
    Outcome("exit", 0, JList(<<>>), "wrongshape"),
    Outcome("exit", 0, JDict([result |-> JNull]), "wrongshape"),
    Outcome("exit", 0, JDict([result |-> JDict([payloads |-> JNum(1)])]), "wrongshape"),
    Outcome("exit", 0, Payloads(<<JStr(<<"H", "i", ".">>)>>), "wrongshape"),
    Outcome("exit", 0, Payloads(<<JDict([text |-> JNum(7)])>>), "wrongshape"),
    Outcome("exit", 0, JDict(<<>>), "missingfields"),
    Outcome("exit", 0, JDict([result |-> JDict(<<>>)]), "missingfields"),
    Outcome("exit", 0, Payloads(<<>>), "empty"),
    Outcome("exit", 0, Payloads(<<JDict(<<>>), TextPart(<<>>)>>), "empty"),
    Outcome("exit", 0, Payloads(<<TextPart(<<" ">>)>>), "empty"),
    Outcome("exit", 0, Payloads(<<TextPart(<<"Y", "e", "s", ".">>), JDict([text |-> JNull])>>), "reply"),
    Outcome("exit", 0, Payloads(<<TextPart(<<"H", "i", ".">>), TextPart(<<"O", "k">>)>>), "reply"),
    Outcome("exit", 0, Payloads(<<TextPart(<<"S", "u", "n", "n", "y", ".", " ", "W", "a", "r", "m", " ", "t", "o", "d", "a", "y">>)>>), "reply"),
    Outcome("exit", 0, Payloads(<<TextPart(<<"I", "t", " ", "i", "s", " ", "s", "u", "n", "n", "y">>)>>), "reply"),
    Outcome("exit", 0, Payloads(<<TextPart(<<"-", " ", "*", "*", "H", "i", "*", "*">>)>>), "reply"),
    Outcome("exit", 0, Payloads(<<TextPart(<<"*", "*">>)>>), "reply") >>

\* what a call of ask_agent leaves: whether it raised, the reply it returned,
\* and the two global counters
AgentResult(raised, rep, tc, ce) ==
    [raised |-> raised, reply |-> rep, turn_count |-> tc, consecutive_errors |-> ce]

ask_agent_EmptyNotCounted(o, tc, ce) ==
    IF o.kind = "timeout" THEN AgentResult(FALSE, TIMEOUT_REPLY, tc, ce + 1)
    ELSE IF o.kind = "oserror" THEN AgentResult(TRUE, <<>>, tc, ce)
    ELSE IF o.code # 0 THEN AgentResult(FALSE, ERROR_REPLY, tc, ce + 1)
    ELSE LET p == ParseReply(o.stdout)
         IN  IF p.kind = "escape" THEN AgentResult(TRUE, <<>>, tc, ce)
             ELSE IF p.kind = "decode_error"
                  THEN AgentResult(FALSE, PARSE_ERROR_REPLY, tc, ce + 1)
             ELSE IF p.reply = <<>> THEN AgentResult(FALSE, EMPTY_REPLY, tc, ce)
             ELSE AgentResult(FALSE, StripMarkdown(Truncate(p.reply)), tc + 1, 0)

\* ask_agent(text) on the agent's outcome o, with the counters tc and ce
ask_agent(o, tc, ce) ==
    IF o.kind = "timeout" THEN AgentResult(FALSE, TIMEOUT_REPLY, tc, ce + 1)
    ELSE IF o.kind = "oserror" THEN AgentResult(TRUE, <<>>, tc, ce)
    ELSE IF o.code # 0 THEN AgentResult(FALSE, ERROR_REPLY, tc, ce + 1)
    ELSE LET p == ParseReply(o.stdout)
         IN  IF p.kind = "escape" THEN AgentResult(TRUE, <<>>, tc, ce)
             ELSE IF p.kind = "decode_error"
                  THEN AgentResult(FALSE, PARSE_ERROR_REPLY, tc, ce + 1)
             ELSE IF p.reply = <<>> THEN AgentResult(FALSE, EMPTY_REPLY, tc, ce + 1)
             ELSE AgentResult(FALSE, StripMarkdown(Truncate(p.reply)), tc + 1, 0)

\* ------------------------------------------------------------------------
\* Utterance recorder, one whole call on a given stream
\* ------------------------------------------------------------------------
\* n frames of level rms, each read in dt ticks
Frames(n, rms, dt) == [i \in 1..n |-> [rms |-> rms, dt |-> dt]]

\* a stream: idle silent frames, speech frames above the threshold, then
\* silence for longer than SILENCE_DURATION; with late, the read of the third
\* silent frame returns late
RecInput(idle, speech, late, thr) ==
    Frames(idle, 0, 1) \o Frames(speech, thr + 1, 1) \o Frames(2, thr, 1)
        \o Frames(1, 0, IF late THEN Stall ELSE 1)
        \o Frames(SILENCE_DURATION, 0, 1)

RecInputs(thr) == { RecInput(MaxIdle, 1, l, thr) : l \in BOOLEAN }

\* the while loop of record_utterance from frame k of the stream on
RECURSIVE RecLoop(_, _, _, _, _)
RecLoop(st, frames, k, t, thr) ==
    IF st.broke \/ k > Len(frames) THEN st
    ELSE RecLoop(RecStep(st, k, frames[k].rms, t + frames[k].dt, thr),
                 frames, k + 1, t + frames[k].dt, thr)

\* record_utterance(threshold) on a stream: whether it returned (it blocks in
\* stream.read when the stream gives no more frames), and the value returned
record_utterance(frames, thr) ==
    LET st == RecLoop(RecInit, frames, 1, 0, thr)
    IN  [returned |-> st.broke,
         value    |-> IF st.broke THEN RecReturn(st.audio_chunks) ELSE NoAudio]

\* ------------------------------------------------------------------------
\* Turn loop
\* ------------------------------------------------------------------------
ResetCheck_Gt(tc, ce) ==
    LET a == IF tc > MAX_TURNS THEN [tc |-> 0, ce |-> 0] ELSE [tc |-> tc, ce |-> ce]
    IN  IF a.ce >= MAX_ERRORS THEN [tc |-> 0, ce |-> 0] ELSE a

ResetCheck_ErrorsGt(tc, ce) ==
    LET a == IF tc >= MAX_TURNS THEN [tc |-> 0, ce |-> 0] ELSE [tc |-> tc, ce |-> ce]
    IN  IF a.ce > MAX_ERRORS THEN [tc |-> 0, ce |-> 0] ELSE a

ResetCheck_KeepTurns(tc, ce) ==
    LET a == IF tc >= MAX_TURNS THEN [tc |-> 0, ce |-> 0] ELSE [tc |-> tc, ce |-> ce]
    IN  IF a.ce >= MAX_ERRORS THEN [tc |-> a.tc, ce |-> 0] ELSE a

\* main, the head of the loop body: `if turn_count >= MAX_TURNS` and
\* `if consecutive_errors >= 3`, each resetting both counters
ResetCheck(tc, ce) ==
    LET a == IF tc >= MAX_TURNS THEN [tc |-> 0, ce |-> 0] ELSE [tc |-> tc, ce |-> ce]
    IN  IF a.ce >= MAX_ERRORS THEN [tc |-> 0, ce |-> 0] ELSE a

OnException_NoCount(ce) == ce

\* main, `except Exception`: consecutive_errors += 1; continue
OnException(ce) == ce + 1

\* no reply is being stripped
StripIdle ==
    /\ sreply = <<>>
    /\ npass = 0
    /\ h_once = <<>>

Init ==
    /\ StripIdle
    /\ threshold \in Thresholds
    /\ RecLocalsInit
    /\ tts_cfg \in TtsConfigs
    /\ pc = "top"
    /\ turn_count = 0
    /\ consecutive_errors = 0
    /\ audio = NoAudio
    /\ text = <<>>
    /\ reply = <<>>
    /\ tmp_files = 0
    /\ tts_calls = <<>>
    /\ exit_cause = "none"
    /\ h_event = "none"
    /\ h_class = "none"
    /\ h_raw = None
    /\ h_fast = None
    /\ h_top = [tc |-> 0, ce |-> 0, succ |-> 0, streak |-> 0]
    /\ h_rec = [tc |-> 0, ce |-> 0]
    /\ h_spk = [tc |-> 0, ce |-> 0]
    /\ h_succ = 0
    /\ h_streak = 0

\* the locals of the last iteration are dead when the next one starts
ClearLocals ==
    /\ audio' = NoAudio
    /\ text' = <<>>
    /\ reply' = <<>>
    /\ tts_calls' = <<>>
    /\ h_class' = "none"
    /\ h_raw' = None
    /\ h_fast' = None

\* the reset checks at the head of an iteration
LoopTop ==
    /\ pc = "top"
    /\ LET r     == ResetCheck(turn_count, consecutive_errors)
           fired == turn_count >= MAX_TURNS \/ consecutive_errors >= MAX_ERRORS
       IN  /\ turn_count' = r.tc
           /\ consecutive_errors' = r.ce
           /\ h_top' = [tc |-> turn_count, ce |-> consecutive_errors,
                        succ |-> h_succ, streak |-> h_streak]
           /\ h_rec' = [tc |-> r.tc, ce |-> r.ce]
           /\ h_spk' = [tc |-> r.tc, ce |-> r.ce]
           /\ h_succ' = IF fired THEN 0 ELSE h_succ
           /\ h_streak' = IF fired THEN 0 ELSE h_streak
    /\ pc' = "record"
    /\ ClearLocals
    /\ UNCHANGED <<recvars, stripvars, tts_cfg, tmp_files, exit_cause, h_event>>

\* audio = record_utterance(threshold); `if audio is None: continue`
RecordReturns ==
    /\ pc = "record"
    /\ \E frames \in RecInputs(threshold) :
         LET r == record_utterance(frames, threshold)
         IN  /\ r.returned
             /\ audio' = r.value
             /\ pc' = IF r.value = NoAudio THEN "top" ELSE "transcribe"
             /\ h_event' = IF r.value = NoAudio THEN "rec_none" ELSE "recorded"
    /\ UNCHANGED <<recvars, stripvars, tts_cfg, turn_count, consecutive_errors, text, reply,
                   tmp_files, tts_calls, exit_cause, h_class, h_raw, h_fast, h_top, h_rec,
                   h_spk, h_succ, h_streak>>

\* record_utterance raises (the input stream fails)
RecordRaises ==
    /\ pc = "record"
    /\ consecutive_errors' = OnException(consecutive_errors)
    /\ pc' = "top"
    /\ h_event' = "rec_raised"
    /\ UNCHANGED <<recvars, stripvars, tts_cfg, turn_count, audio, text, reply, tmp_files,
                   tts_calls, exit_cause, h_class, h_raw, h_fast, h_top, h_rec, h_spk,
                   h_succ, h_streak>>

\* text = transcribe(audio), the engine returning; then the transcript filter
Transcribe ==
    /\ pc = "transcribe"
    /\ \E i \in 1..Len(WhisperTexts) :
         LET t == Strip(WhisperTexts[i])
         IN  /\ text' = t
             /\ pc' = IF IsDiscardedText(t) THEN "top" ELSE "ask"
             /\ h_event' = IF IsDiscardedText(t) THEN "text_discarded" ELSE "transcribed"
    /\ UNCHANGED <<recvars, stripvars, tts_cfg, turn_count, consecutive_errors, audio, reply,
                   tmp_files, tts_calls, exit_cause, h_class, h_raw, h_fast, h_top, h_rec,
                   h_spk, h_succ, h_streak>>

\* transcribe raises in the engine call: the temporary file made before the
\* call is not unlinked
TranscribeRaises ==
    /\ pc = "transcribe"
    /\ tmp_files < MaxTmpFiles
    /\ tmp_files' = tmp_files + 1
    /\ consecutive_errors' = OnException(consecutive_errors)
    /\ pc' = "top"
    /\ h_event' = "transcribe_raised"
    /\ UNCHANGED <<recvars, stripvars, tts_cfg, turn_count, audio, text, reply, tts_calls,
                   exit_cause, h_class, h_raw, h_fast, h_top, h_rec, h_spk, h_succ, h_streak>>

\* reply = ask_agent(text); an exception it lets through reaches the handler
AskAgent ==
    /\ pc = "ask"
    /\ \E i \in 1..Len(AgentOutcomes) :
         LET o == AgentOutcomes[i]
             r == ask_agent(o, turn_count, consecutive_errors)
         IN  /\ turn_count' = r.turn_count
             /\ consecutive_errors' =
                    IF r.raised THEN OnException(r.consecutive_errors)
                    ELSE r.consecutive_errors
             /\ reply' = r.reply
             /\ pc' = IF r.raised THEN "top" ELSE "speak"
             /\ h_event' = IF r.raised THEN "agent_raised" ELSE "agent_returned"
             /\ h_class' = o.class
             /\ h_succ' = IF o.class = "reply" THEN h_succ + 1 ELSE h_succ
             /\ h_streak' = IF o.class = "reply" THEN 0 ELSE h_streak + 1
    /\ UNCHANGED <<recvars, stripvars, tts_cfg, audio, text, tmp_files, tts_calls, exit_cause,
                   h_raw, h_fast, h_top, h_rec, h_spk>>

\* speak(reply), and the end of the iteration
Speak ==
    /\ pc = "speak"
    /\ \E env \in TtsEnvs :
         LET calls == speak(reply, tts_cfg, env)
         IN  /\ tts_calls' = calls
             /\ h_raw' = env.raw
             /\ h_fast' = IF \E i \in 1..Len(calls) : calls[i].prog = "ffmpeg"
                          THEN env.fast ELSE None
    /\ h_spk' = [tc |-> turn_count, ce |-> consecutive_errors]
    /\ pc' = "top"
    /\ h_event' = "spoken"
    /\ UNCHANGED <<recvars, stripvars, tts_cfg, turn_count, consecutive_errors, audio, text,
                   reply, tmp_files, exit_cause, h_class, h_top, h_rec, h_succ,
                   h_streak>>

\* KeyboardInterrupt, at any point of the loop: `break`, and main returns
\* (its locals are gone)
Interrupt ==
    /\ pc # "exited"
    /\ pc' = "exited"
    /\ exit_cause' = "KeyboardInterrupt"
    /\ ClearLocals
    /\ UNCHANGED <<recvars, stripvars, tts_cfg, turn_count, consecutive_errors, tmp_files,
                   h_event, h_top, h_rec, h_spk, h_succ, h_streak>>

Next ==
    \/ LoopTop
    \/ RecordReturns
    \/ RecordRaises
    \/ Transcribe
    \/ TranscribeRaises
    \/ AskAgent
    \/ Speak
    \/ Interrupt

Spec == Init /\ [][Next]_vars

\* ------------------------------------------------------------------------
\* The recorder on its own, frame by frame
\* ------------------------------------------------------------------------
InitRec ==
    /\ Init
    /\ tts_cfg = [elevenlabs |-> FALSE, openai |-> FALSE, speed_set |-> FALSE]

\* one read of the stream and one pass of the loop; on `break`, the return
ReadFrame ==
    /\ rpc = "reading"
    /\ nread < MaxFrames
    /\ \E rms \in RmsLevels, dt \in Delays(stalls) :
         LET loud == rms > threshold
             t    == now + dt
             st   == [speech_started |-> speech_started,
                      silence_start  |-> silence_start,
                      audio_chunks   |-> audio_chunks,
                      broke          |-> FALSE]
             nx   == RecStep(st, nread + 1, rms, t, threshold)
         IN  /\ loud => h_speech < MaxSpeech
             /\ (~loud /\ h_speech = 0) => h_idle < MaxIdle
             /\ now' = t
             /\ nread' = nread + 1
             /\ stalls' = IF dt = 1 THEN stalls ELSE stalls + 1
             /\ speech_started' = nx.speech_started
             /\ silence_start' = nx.silence_start
             /\ audio_chunks' = nx.audio_chunks
             /\ rpc' = IF nx.broke THEN "returned" ELSE "reading"
             /\ rresult' = IF nx.broke THEN RecReturn(nx.audio_chunks) ELSE rresult
             /\ h_speech' = IF loud THEN h_speech + 1 ELSE h_speech
             /\ h_idle' = IF ~loud /\ h_speech = 0 THEN h_idle + 1 ELSE h_idle
             /\ h_quiet' = IF loud THEN None
                           ELSE IF h_quiet = None THEN t ELSE h_quiet
             /\ h_resumed' = (h_resumed \/ (loud /\ h_speech > 0 /\ silence_start # None))
    /\ UNCHANGED <<threshold, mainvars, stripvars>>

\* the next call of record_utterance
CallRecord ==
    /\ rpc = "returned"
    /\ rpc' = "reading"
    /\ speech_started' = RecInit.speech_started
    /\ silence_start' = RecInit.silence_start
    /\ audio_chunks' = RecInit.audio_chunks
    /\ rresult' = NoAudio
    /\ now' = 0
    /\ nread' = 0
    /\ stalls' = 0
    /\ h_idle' = 0
    /\ h_speech' = 0
    /\ h_resumed' = FALSE
    /\ h_quiet' = None
    /\ UNCHANGED <<threshold, mainvars, stripvars>>

NextRec == ReadFrame \/ CallRecord

SpecRec == InitRec /\ [][NextRec]_vars

\* the stream delivers a frame to every read, so the loop keeps reading
SpecRecLive == SpecRec /\ WF_vars(ReadFrame)

\* ------------------------------------------------------------------------
\* The stripping loop of ask_agent on its own, on every short reply
\* ------------------------------------------------------------------------
\* the characters of the sequences removed, and one that is in none
StripChars == {"*", Backtick, "-", " ", "a"}

\* the replies of at most MaxStripLen of these characters
StripInputs == UNION { [1..n -> StripChars] : n \in 0..MaxStripLen }

InitStrip ==
    /\ threshold = THRESHOLD_FLOOR
    /\ RecLocalsInit
    /\ tts_cfg = [elevenlabs |-> FALSE, openai |-> FALSE, speed_set |-> FALSE]
    /\ pc = "ask"
    /\ turn_count = 0
    /\ consecutive_errors = 0
    /\ audio = NoAudio
    /\ text = <<>>
    /\ reply = <<>>
    /\ tmp_files = 0
    /\ tts_calls = <<>>
    /\ exit_cause = "none"
    /\ h_event = "transcribed"
    /\ h_class = "none"
    /\ h_raw = None
    /\ h_fast = None
    /\ h_top = [tc |-> 0, ce |-> 0, succ |-> 0, streak |-> 0]
    /\ h_rec = [tc |-> 0, ce |-> 0]
    /\ h_spk = [tc |-> 0, ce |-> 0]
    /\ h_succ = 0
    /\ h_streak = 0
    /\ sreply \in StripInputs
    /\ npass = 0
    /\ h_once = <<>>

\* `for ch in [...]: reply = reply.replace(ch, "")`, the whole loop, run on
\* the reply the last run left
StripPass ==
    /\ npass < 2
    /\ sreply' = StripMarkdown(sreply)
    /\ npass' = npass + 1
    /\ h_once' = IF npass = 0 THEN StripMarkdown(sreply) ELSE h_once
    /\ UNCHANGED <<recvars, mainvars>>

NextStrip == StripPass

SpecStrip == InitStrip /\ [][NextStrip]_vars

\* ------------------------------------------------------------------------
\* Properties of the stripping loop (SpecStrip)
\* ------------------------------------------------------------------------
\* C15 (the claim as stated): for every reply, running the stripping loop
\* (the removal of "**", of three backticks, of one backtick, of "- " and of
\* "* ", in this order) a second time leaves what the first run gave.
C15_StripIdempotent ==
    npass = 2 => sreply = h_once

\* ------------------------------------------------------------------------
\* Properties of the recorder (SpecRec, SpecRecLive)
\* ------------------------------------------------------------------------
\* C1: as long as no frame read had an RMS above the threshold, the recorder
\* is in Idle (speech_started is false), has accumulated no frame and has not
\* returned.
C1_SilenceStaysIdle ==
    h_speech = 0 =>
        /\ ~speech_started
        /\ silence_start = None
        /\ audio_chunks = <<>>
        /\ rpc = "reading"
        /\ rresult = NoAudio

\* frames were read, none above the threshold, and the recorder is still idle
C1_Witness ==
    /\ nread = MaxIdle
    /\ h_speech = 0
    /\ ~speech_started
    /\ rpc = "reading"

\* C2 (the claim as stated): silence, then one run of speech frames shorter
\* than MIN_SPEECH_DURATION, then silence read at the stream's pace until the
\* recorder returns: the value returned is None.
C2_ShortSpeechDiscarded ==
    (/\ rpc = "returned"
     /\ h_speech \in 1..(MIN_SPEECH_DURATION - 1)
     /\ ~h_resumed
     /\ stalls = 0)
        => rresult = NoAudio

\* C3: once two seconds of uninterrupted speech frames have been read, the
\* recorder returns an utterance of at least two seconds, unless more speech
\* follows.
C3_TwoSecondsReturned ==
    (rpc = "reading" /\ h_speech = TwoSeconds /\ ~h_resumed)
        ~> \/ /\ rpc = "returned"
              /\ rresult.some
              /\ Len(rresult.audio) >= TwoSeconds
           \/ h_speech > TwoSeconds

\* two seconds of speech, then silence, and the recorder has returned them
C3_Witness ==
    /\ rpc = "returned"
    /\ h_speech = TwoSeconds
    /\ ~h_resumed
    /\ rresult.some
    /\ Len(rresult.audio) >= TwoSeconds + SILENCE_DURATION

\* C17: record_utterance returns only after speech, on a silence frame, when
\* the silence frames read since the last speech frame have lasted
\* SILENCE_DURATION or more; the timer is the start of that run of silence
\* alone, and a speech frame clears it.
C17_EndsOnUninterruptedSilence ==
    /\ rpc = "returned" =>
           /\ speech_started
           /\ h_speech > 0
           /\ h_quiet # None
           /\ now - h_quiet >= SILENCE_DURATION
    /\ h_quiet = None => silence_start = None
    /\ silence_start # None => silence_start = h_quiet

\* speech resumed after a pause of a second or more, and the recorder returned
\* only once the silence after the last speech frame had lasted long enough
C17_Witness ==
    /\ rpc = "returned"
    /\ h_resumed
    /\ stalls = 0
    /\ nread - h_idle - h_speech >= 10 + SILENCE_DURATION + 2
    /\ now - h_quiet > SILENCE_DURATION
    /\ now - h_quiet < 10 + SILENCE_DURATION

\* the frames numbered from a to b, in order
FramesFromTo(a, b) == [i \in 1..(b - a + 1) |-> a + i - 1]

\* C18 (the claim as stated): when record_utterance leaves the loop, the frames
\* accumulated are the frames read from the first speech frame up to and
\* including the silence frame that ended the recording.
C18_AllFramesToTheLast ==
    rpc = "returned" => audio_chunks = FramesFromTo(h_idle + 1, nread)

\* C18 (amended): the frames accumulated are the frames read from the first
\* speech frame on, in order and with none left out, up to and including the
\* last frame read while the loop goes on, and up to but not including the
\* silence frame that ended the recording once it has; no frame read before
\* the first speech frame is among them.
C18_AllFramesButTheLast ==
    /\ h_speech = 0 => audio_chunks = <<>>
    /\ (rpc = "reading" /\ h_speech > 0)
           => audio_chunks = FramesFromTo(h_idle + 1, nread)
    /\ rpc = "returned" => audio_chunks = FramesFromTo(h_idle + 1, nread - 1)

\* idle silence, speech with a pause, and the recording ended by a silence
\* frame that is not among the frames accumulated
C18_Witness ==
    /\ rpc = "returned"
    /\ h_idle > 0
    /\ h_resumed
    /\ Len(audio_chunks) = nread - h_idle - 1
    /\ audio_chunks[1] = h_idle + 1
    /\ audio_chunks[Len(audio_chunks)] = nread - 1

\* ------------------------------------------------------------------------
\* Properties of the turn loop (Spec)
\* ------------------------------------------------------------------------
\* how a stage ends when it raises an exception other than KeyboardInterrupt
RaisedEvents == {"rec_raised", "transcribe_raised", "agent_raised"}

\* C4: when an iteration begins with turn_count at MAX_TURNS or more (MAX_TURNS
\* successful agent turns since the last reset), it starts recording with
\* turn_count and consecutive_errors both 0.
C4_TurnCountReset ==
    (pc = "record" /\ (h_top.tc >= MAX_TURNS \/ h_top.succ >= MAX_TURNS))
        => (turn_count = 0 /\ consecutive_errors = 0)

\* MAX_TURNS successful turns were counted, and recording starts from 0
C4_Witness ==
    /\ pc = "record"
    /\ h_top.succ = MAX_TURNS
    /\ h_top.tc = MAX_TURNS
    /\ turn_count = 0
    /\ consecutive_errors = 0

\* C5: when an iteration begins after 3 agent failures with no successful
\* reply (and no reset) in between, it starts recording with turn_count and
\* consecutive_errors both 0.
C5_ErrorCountReset ==
    (pc = "record" /\ h_top.streak >= MAX_ERRORS)
        => (turn_count = 0 /\ consecutive_errors = 0)

\* three agent failures in a row after a successful turn, and recording
\* starts with both counters 0
C5_Witness ==
    /\ pc = "record"
    /\ h_top.streak = MAX_ERRORS
    /\ h_top.tc > 0
    /\ h_top.ce = MAX_ERRORS
    /\ turn_count = 0
    /\ consecutive_errors = 0

\* C6: an exception raised by a stage of an iteration leaves the loop at the
\* head of the next iteration with consecutive_errors one above its value when
\* recording began and turn_count as it was; the loop is left only by
\* KeyboardInterrupt.
C6_ExceptionCounted ==
    /\ (pc = "top" /\ h_event \in RaisedEvents)
           => (consecutive_errors = h_rec.ce + 1 /\ turn_count = h_rec.tc)
    /\ h_event \in RaisedEvents => pc \in {"top", "record", "exited"}
    /\ pc = "exited" => exit_cause = "KeyboardInterrupt"

\* ask_agent let an exception through with two errors counted already: the
\* handler counts the third and the loop goes on
C6_Witness ==
    /\ pc = "top"
    /\ h_event = "agent_raised"
    /\ h_rec.ce = MAX_ERRORS - 1
    /\ consecutive_errors = MAX_ERRORS
    /\ exit_cause = "none"

\* the agent outcomes C7 names
C7_Failures == {"timeout", "nonzero", "notjson", "wrongshape", "missingfields", "empty"}

\* C7 (the claim as stated): on a timeout, a non-zero exit status, output that
\* is not JSON, JSON of the wrong shape or without the expected fields, or an
\* empty payload text, ask_agent returns one of its fixed apologies and counts
\* one failure, and the loop goes on to speak; output that is not JSON or has
\* the wrong shape gives the parse-error reply.
C7_AgentNeverRaises ==
    (/\ pc \in {"speak", "top"}
     /\ h_event \in {"agent_returned", "agent_raised"}
     /\ h_class \in C7_Failures)
        => /\ h_event = "agent_returned"
           /\ pc = "speak"
           /\ reply \in Apologies
           /\ consecutive_errors = h_rec.ce + 1
           /\ turn_count = h_rec.tc
           /\ h_class \in {"notjson", "wrongshape"} => reply = PARSE_ERROR_REPLY

\* C8: when ask_agent has returned, either the agent gave a non-empty reply,
\* turn_count is one more than before and consecutive_errors is 0, or the agent
\* failed, consecutive_errors is one more than before and turn_count is as it
\* was.
C8_OneCounterUpdate ==
    (pc = "speak" /\ h_event = "agent_returned")
        => IF h_class = "reply"
           THEN turn_count = h_rec.tc + 1 /\ consecutive_errors = 0
           ELSE consecutive_errors = h_rec.ce + 1 /\ turn_count = h_rec.tc

\* a successful reply after a failure: the turn is counted and the errors reset
C8_Witness ==
    /\ pc = "speak"
    /\ h_event = "agent_returned"
    /\ h_class = "reply"
    /\ h_rec.ce > 0
    /\ consecutive_errors = 0
    /\ turn_count = h_rec.tc + 1

\* C9: at the end of an iteration in which record_utterance returned None, or
\* whose transcript is empty or is in the denylist once lowered and stripped,
\* the counters are as they were when recording began and neither ask_agent
\* nor speak was called.
C9_DiscardCountsNothing ==
    (/\ pc = "top"
     /\ \/ h_event \in {"rec_none", "text_discarded"}
        \/ /\ h_event \in {"agent_raised", "spoken"}
           /\ (text = <<>> \/ Strip(Lower(text)) \in Denylist))
        => /\ turn_count = h_rec.tc
           /\ consecutive_errors = h_rec.ce
           /\ h_class = "none"
           /\ reply = <<>>
           /\ tts_calls = <<>>

\* an upper-case transcript of the denylist was discarded, with errors counted
\* before
C9_Witness ==
    /\ pc = "top"
    /\ h_event = "text_discarded"
    /\ text = <<"T", "H", "A", "N", "K", " ", "Y", "O", "U", ".">>
    /\ h_rec.ce > 0
    /\ consecutive_errors = h_rec.ce
    /\ h_class = "none"

\* C10: when a cloud backend is configured and its request leaves no file or
\* one under 1000 bytes, speak returns having invoked `say` with the reply
\* and never the player, and the counters are as they were when speak was
\* called.
C10_UndersizedFallsBack ==
    (/\ pc = "top"
     /\ h_event = "spoken"
     /\ (tts_cfg.elevenlabs \/ tts_cfg.openai)
     /\ (h_raw = None \/ h_raw < MIN_AUDIO_BYTES))
        => /\ \E i \in 1..Len(tts_calls) :
                  tts_calls[i].prog = "say" /\ tts_calls[i].text = reply
           /\ \A i \in 1..Len(tts_calls) : tts_calls[i].prog # "afplay"
           /\ turn_count = h_spk.tc
           /\ consecutive_errors = h_spk.ce

\* the cloud request returned and left a 0-byte file: `say` spoke the reply
C10_Witness ==
    /\ pc = "top"
    /\ h_event = "spoken"
    /\ tts_cfg.elevenlabs
    /\ h_raw = 0
    /\ Len(tts_calls) = 2
    /\ tts_calls[1].prog = "curl"
    /\ tts_calls[1].out = "ok"
    /\ tts_calls[2].prog = "say"
    /\ tts_calls[2].text = reply
    /\ reply # <<>>

\* ------------------------------------------------------------------------
\* Properties of one speak call (Spec)
\* ------------------------------------------------------------------------
\* the external programs of the last speak call that were prog
CallsOf(prog) == { i \in 1..Len(tts_calls) : tts_calls[i].prog = prog }

\* the cloud services the last speak call sent a synthesis request to
Requested == { tts_calls[i].path : i \in CallsOf("curl") }

\* C11: a speak call sends its one synthesis request to ElevenLabs when that
\* key is set, else to OpenAI when that key is set, else it runs `say` and
\* nothing else; it never sends requests to both services, and it runs `say`
\* at most once, and after the request when there is one.
C11_OneBackend ==
    (pc = "top" /\ h_event = "spoken")
        => /\ Requested = IF tts_cfg.elevenlabs THEN {"elevenlabs"}
                          ELSE IF tts_cfg.openai THEN {"openai"}
                          ELSE {}
           /\ Cardinality(CallsOf("curl")) <= 1
           /\ CallsOf("curl") \subseteq {1}
           /\ Cardinality(CallsOf("say")) <= 1
           /\ CallsOf("say") \subseteq {Len(tts_calls)}
           /\ (~tts_cfg.elevenlabs /\ ~tts_cfg.openai) => Len(tts_calls) = 1

\* both keys are set and the request to ElevenLabs raised: `say` ran once and
\* OpenAI was not tried
C11_Witness ==
    /\ pc = "top"
    /\ h_event = "spoken"
    /\ tts_cfg.elevenlabs
    /\ tts_cfg.openai
    /\ Len(tts_calls) = 2
    /\ tts_calls[1] = Call("curl", "elevenlabs", reply, "raise")
    /\ tts_calls[2].prog = "say"

\* C12 (the claim as stated): in every speak call, whatever the external
\* programs do, the runs of the player `afplay` and of the synthesizer `say`
\* together number exactly one.
C12_OutputStartedOnce ==
    (pc = "top" /\ h_event = "spoken")
        => Cardinality(CallsOf("afplay")) + Cardinality(CallsOf("say")) = 1

\* ------------------------------------------------------------------------
\* Properties of transcribe and ask_agent (Spec)
\* ------------------------------------------------------------------------
\* C13 (the claim as stated): once a call of transcribe has finished, by
\* returning or by an exception of the engine, no temporary file that
\* transcribe created is left.
C13_TempFileDeleted ==
    h_event \in {"text_discarded", "transcribed", "transcribe_raised"}
        => tmp_files = 0

\* a successful call of ask_agent has returned its reply
SuccessReturned == pc = "speak" /\ h_event = "agent_returned" /\ h_class = "reply"

\* C14 (the claim as stated): every reply that ask_agent returns on success
\* has at most MAX_REPLY_CHARS characters.
C14_ReplyWithinBudget ==
    SuccessReturned => Len(reply) <= MAX_REPLY_CHARS

\* C14 (amended): every reply that ask_agent returns on success has at most
\* MAX_REPLY_CHARS characters and the three of the ellipsis marker, and one
\* over MAX_REPLY_CHARS ends with the ellipsis marker.
C14_ReplyWithinBudgetAndEllipsis ==
    SuccessReturned =>
        /\ Len(reply) <= MAX_REPLY_CHARS + Len(<<".", ".", ".">>)
        /\ Len(reply) > MAX_REPLY_CHARS =>
               SubSeq(reply, Len(reply) - 2, Len(reply)) = <<".", ".", ".">>

\* a reply over the budget with no period was cut hard: the budget and the
\* ellipsis marker
C14_Witness ==
    /\ SuccessReturned
    /\ Len(reply) = MAX_REPLY_CHARS + 3
    /\ SubSeq(reply, 1, 5) = <<"I", "t", " ", "i", "s">>

\* the last speak call ran the ElevenLabs backend with a speed other than 1.0,
\* the request left a valid file, and the re-encoding failed: ffmpeg raised
\* (timeout, no encoder installed), exited with a non-zero status, or left no
\* file or one of 500 bytes or less
ReencodeFailed ==
    /\ pc = "top"
    /\ h_event = "spoken"
    /\ tts_cfg.elevenlabs
    /\ tts_cfg.speed_set
    /\ Len(tts_calls) >= 2
    /\ tts_calls[1].out = "ok"
    /\ h_raw # None
    /\ h_raw >= MIN_AUDIO_BYTES
    /\ tts_calls[2].prog = "ffmpeg"
    /\ \/ tts_calls[2].out \in {"raise", "nonzero"}
       \/ h_fast = None
       \/ h_fast <= MIN_FAST_BYTES

\* C16 (the claim as stated): when the re-encoding fails in any of these
\* ways, the next program run is the player on the original file, not `say`.
C16_ReencodeFailurePlaysOriginal ==
    ReencodeFailed
        => /\ Len(tts_calls) >= 3
           /\ tts_calls[3].prog = "afplay"
           /\ tts_calls[3].path = "raw"

\* C19 (the claim as stated): whenever ask_agent has counted a successful
\* turn (turn_count one more than before, consecutive_errors 0), the reply it
\* returned, which is the text speak is called with, is not empty.
C19_CountedReplyNonEmpty ==
    (/\ pc = "speak"
     /\ h_event = "agent_returned"
     /\ turn_count = h_rec.tc + 1
     /\ consecutive_errors = 0)
        => reply # <<>>

\* ------------------------------------------------------------------------
\* Properties of the counters (Spec)
\* ------------------------------------------------------------------------
\* C20: in every state of the turn loop consecutive_errors is between 0 and 3
\* and turn_count between 0 and MAX_TURNS, and whenever recording starts
\* consecutive_errors is below 3 and turn_count below MAX_TURNS.
C20_CountersBounded ==
    /\ consecutive_errors \in 0..MAX_ERRORS
    /\ turn_count \in 0..MAX_TURNS
    /\ pc = "record" => (consecutive_errors < MAX_ERRORS /\ turn_count < MAX_TURNS)

\* the third error in a row was counted by the exception handler, with a turn
\* counted before: the error count is at its bound at the end of the iteration
C20_Witness ==
    /\ pc = "top"
    /\ h_event \in RaisedEvents
    /\ consecutive_errors = MAX_ERRORS
    /\ turn_count = MAX_TURNS - 1
    /\ turn_count > 0

====
